---------------------------- MODULE Spec2Model ----------------------------
(***************************************************************************)
(* Model of the two serverless handlers of the repository:                 *)
(*   - the context-extraction handler  (src/unnamed/part_000)              *)
(*   - the product-enrichment handler  (src/api/enrich-products.js)        *)
(* JavaScript values are tagged records, strings are sequences of          *)
(* characters, and a completion reply is a sequence of lexical tokens       *)
(* (code-fence markers, whitespace, one JSON text, or garbage).            *)
(***************************************************************************)
EXTENDS Integers, Sequences, FiniteSets, TLC

VARIABLES
    handler,     \* which function serves the request: "context" | "enrich" | "keywords"
    req,         \* the request: [method, body]
    apiKey,      \* process.env.OPENAI_API_KEY is set
    pc,          \* position of the handler (its pending await, or "done")
    res,         \* the response sent, NoResponse before
    apiCalls,    \* number of completion API calls issued so far
    allProducts, \* enrich: the product list after skip/limit
    i,           \* enrich: outer loop index
    j,           \* enrich: inner loop index
    results,     \* enrich: the results accumulator
    calls,       \* enrich: the per-product async calls of the current sub-batch
    clock,       \* enrich: Date.now() - results.startTime, in ms
    attempts,    \* enrich: per product id, generation calls started
    updates,     \* enrich: per product id, store updates issued
    store,       \* enrich: per product id, the metadata stored
    checks,      \* enrich: number of elapsed-time checks made
    invocation,  \* enrich: 1 for the first invocation, 2 for the follow-up
    first        \* enrich: what the first invocation left (for the follow-up)

vars == <<handler, req, apiKey, pc, res, apiCalls, allProducts, i, j, results,
          calls, clock, attempts, updates, store, checks, invocation, first>>

---------------------------------------------------------------------------
(* Bounds of the model *)

\* longest query string enumerated (characters)
MaxQueryLen == 2
\* longest completion reply enumerated (tokens)
MaxContentLen == 3

---------------------------------------------------------------------------
(* JavaScript values *)

JUndefined == [t |-> "undefined"]
JNull == [t |-> "null"]
JNum(n) == [t |-> "number", n |-> n]
JBool(b) == [t |-> "boolean", b |-> b]
JStr(s) == [t |-> "string", s |-> s]
NoProps == [k \in {} |-> JUndefined]
\* an array: its elements, and its non-index own properties
JArr(a) == [t |-> "array", a |-> a, x |-> NoProps]
JObj(p) == [t |-> "object", p |-> p]

\* ToBoolean
Truthy(v) ==
    CASE v.t = "undefined" -> FALSE
      [] v.t = "null" -> FALSE
      [] v.t = "number" -> v.n # 0
      [] v.t = "boolean" -> v.b
      [] v.t = "string" -> Len(v.s) > 0
      [] OTHER -> TRUE

\* property read  v[key]  on a value that is not null or undefined
Get(v, key) ==
    CASE v.t = "object" -> IF key \in DOMAIN v.p THEN v.p[key] ELSE JUndefined
      [] v.t = "array" -> IF key \in DOMAIN v.x THEN v.x[key] ELSE JUndefined
      [] OTHER -> JUndefined

\* the function f with key k set to v (k added when absent)
PutKey(f, k, v) == [q \in DOMAIN f \cup {k} |-> IF q = k THEN v ELSE f[q]]

\* property write  v[key] = val  in strict-mode (module) code:
\* a TypeError on null, undefined and on primitives
CanSetProperty(v) == v.t \in {"object", "array"}
SetProperty(v, key, val) ==
    IF v.t = "object" THEN [v EXCEPT !.p = PutKey(v.p, key, val)]
    ELSE [v EXCEPT !.x = PutKey(v.x, key, val)]

\* JSON.stringify followed by the client's JSON.parse: what the caller
\* receives. An array is serialized as its elements only.
JSONWire(v) ==
    IF v.t = "array" THEN JArr(v.a) ELSE v

---------------------------------------------------------------------------
(* Strings *)

IsSpace(c) == c \in {" ", "\n", "\t"}

RECURSIVE TrimStart(_)
TrimStart(s) ==
    IF s = <<>> THEN s
    ELSE IF IsSpace(Head(s)) THEN TrimStart(Tail(s)) ELSE s

RECURSIVE TrimEnd(_)
TrimEnd(s) ==
    IF s = <<>> THEN s
    ELSE IF IsSpace(s[Len(s)]) THEN TrimEnd(SubSeq(s, 1, Len(s) - 1)) ELSE s

\* String.prototype.trim
Trim(s) == TrimEnd(TrimStart(s))

UpperLetters ==
    <<"A","B","C","D","E","F","G","H","I","J","K","L","M",
      "N","O","P","Q","R","S","T","U","V","W","X","Y","Z">>
LowerLetters ==
    <<"a","b","c","d","e","f","g","h","i","j","k","l","m",
      "n","o","p","q","r","s","t","u","v","w","x","y","z">>

LowerChar(c) ==
    IF \E n \in 1..Len(UpperLetters) : UpperLetters[n] = c
    THEN LowerLetters[CHOOSE n \in 1..Len(UpperLetters) : UpperLetters[n] = c]
    ELSE c

\* String.prototype.toLowerCase
ToLowerCase(s) == [n \in 1..Len(s) |-> LowerChar(s[n])]

\* all sequences over S of length at most n
RECURSIVE SeqsUpTo(_, _)
SeqsUpTo(S, n) ==
    IF n = 0 THEN {<<>>}
    ELSE LET shorter == SeqsUpTo(S, n - 1)
         IN shorter \cup {Append(s, e) : s \in {q \in shorter : Len(q) = n - 1}, e \in S}

---------------------------------------------------------------------------
(* Completion replies: token sequences *)

TFenceJson == [k |-> "fencejson"]   \* the text ```json
TFence == [k |-> "fence"]           \* the text ```
TSpace == [k |-> "space"]           \* white space
TGarbage == [k |-> "garbage"]       \* text that is no JSON
TJson(v) == [k |-> "json", v |-> v] \* one JSON text, denoting the value v

\* trim() on a token sequence
RECURSIVE TokTrimStart(_)
TokTrimStart(c) ==
    IF c = <<>> THEN c
    ELSE IF Head(c).k = "space" THEN TokTrimStart(Tail(c)) ELSE c

RECURSIVE TokTrimEnd(_)
TokTrimEnd(c) ==
    IF c = <<>> THEN c
    ELSE IF c[Len(c)].k = "space" THEN TokTrimEnd(SubSeq(c, 1, Len(c) - 1)) ELSE c

TokTrim(c) == TokTrimEnd(TokTrimStart(c))

StartsWithFenceJson(c) == c # <<>> /\ Head(c).k = "fencejson"
\* the text ```json starts with ``` too
StartsWithFence(c) == c # <<>> /\ Head(c).k \in {"fence", "fencejson"}
EndsWithFence(c) == c # <<>> /\ c[Len(c)].k = "fence"

\* substring(3) of a text starting with ```: what is left of its first token
DropFence(c) ==
    IF Head(c).k = "fence" THEN Tail(c) ELSE <<TGarbage>> \o Tail(c)

\* the fence stripping both handlers apply to a trimmed reply
StripFences(content) ==
    LET s1 == IF StartsWithFenceJson(content) THEN Tail(content) ELSE content
        s2 == IF StartsWithFence(s1) THEN DropFence(s1) ELSE s1
        s3 == IF EndsWithFence(s2) THEN SubSeq(s2, 1, Len(s2) - 1) ELSE s2
    IN TokTrim(s3)

\* JSON.parse: succeeds on exactly one JSON text
ParseOk(c) == Len(c) = 1 /\ c[1].k = "json"
ParseValue(c) == c[1].v

---------------------------------------------------------------------------
(* Responses *)

NoResponse == [status |-> 0, body |-> [kind |-> "none"]]
EmptyBody == [kind |-> "empty"]
ErrorBody(msg) == [kind |-> "error", error |-> msg]
JsonBody(v) == [kind |-> "json", value |-> v]

Respond(status, body) == [status |-> status, body |-> body]

---------------------------------------------------------------------------
(* The environment of a request *)

Methods == {"POST", "OPTIONS", "GET"}

\* what a completion API call comes back with
NetworkError == [kind |-> "throw"]          \* fetch rejects
NotOk == [kind |-> "notok"]                 \* response.ok is false
BadData == [kind |-> "baddata"]             \* no data.choices[0].message.content string
Reply(content) == [kind |-> "content", content |-> content]

---------------------------------------------------------------------------
(* Context handler: src/unnamed/part_000 *)

QueryChars == {"a", " "}
QueryStrings == {JStr(s) : s \in SeqsUpTo(QueryChars, MaxQueryLen)}
QueryValues ==
    QueryStrings \cup {JUndefined, JNull, JNum(0), JNum(5), JBool(TRUE), JArr(<<>>)}

\* req.body: absent, or an object with or without a query
ContextBodies ==
    {JUndefined, JObj(NoProps)} \cup {JObj([query |-> q]) : q \in QueryValues \ {JUndefined}}

\* the JSON values a completion reply may denote
ContextReplyValues ==
    { JObj([destination |-> JStr(<<"P">>), contextExplanation |-> JStr(<<"e">>)]),
      JObj([originalQuery |-> JStr(<<"z">>)]),
      JArr(<<JNum(1)>>),
      JNull,
      JNum(5),
      JStr(<<"a">>) }

ContextTokens ==
    {TFenceJson, TFence, TSpace, TGarbage} \cup {TJson(v) : v \in ContextReplyValues}

ContextOutcomes ==
    {NetworkError, NotOk, BadData}
        \cup {Reply(c) : c \in SeqsUpTo(ContextTokens, MaxContentLen)}

\* `Showing results for: ${query}`
Explanation(q) ==
    IF q.t = "string" THEN JStr(<<"Showing results for: ">> \o q.s)
    ELSE JStr(<<"Showing results for: ", q.t>>)

\* the degraded context object
BasicContext(q) ==
    JObj([destination |-> JNull, occasion |-> JNull, timePeriod |-> JNull,
          season |-> JNull, specificMonths |-> JNull,
          originalQuery |-> q, contextExplanation |-> Explanation(q)])

\* req.body?.query || ''
BodyQueryOrEmpty(body) ==
    IF body.t \in {"undefined", "null"} THEN JStr(<<>>)
    ELSE IF Truthy(Get(body, "query")) THEN Get(body, "query") ELSE JStr(<<>>)

\* the catch block: 200 with the degraded context
ContextCatch(body) == Respond(200, JsonBody(BasicContext(BodyQueryOrEmpty(body))))

\* !query || typeof query !== 'string' || query.trim().length === 0
QueryRejected(q) ==
    \/ ~Truthy(q)
    \/ q.t # "string"
    \/ Len(Trim(q.s)) = 0

\* the handler up to its first await, or to its response
ContextEntry(method, body, key) ==
    IF method # "POST" THEN [kind |-> "respond", res |-> Respond(405, ErrorBody("Method not allowed"))]
    ELSE IF method = "OPTIONS" THEN [kind |-> "respond", res |-> Respond(200, EmptyBody)]
    ELSE IF body.t \in {"undefined", "null"}
         \* const { query } = req.body  throws a TypeError
         THEN [kind |-> "respond", res |-> ContextCatch(body)]
    ELSE IF QueryRejected(Get(body, "query"))
         THEN [kind |-> "respond", res |-> Respond(400, ErrorBody("Query is required"))]
    ELSE IF ~key
         THEN [kind |-> "respond", res |-> Respond(200, JsonBody(BasicContext(Get(body, "query"))))]
    ELSE [kind |-> "fetch"]

\* the handler after the completion API call returned
ContextAfterFetch(body, outcome) ==
    LET query == Get(body, "query") IN
    CASE outcome.kind = "throw" -> ContextCatch(body)
      [] outcome.kind = "notok" -> Respond(200, JsonBody(BasicContext(query)))
      [] outcome.kind = "baddata" -> ContextCatch(body)
      [] OTHER ->
           LET jsonStr == StripFences(TokTrim(outcome.content)) IN
           IF ~ParseOk(jsonStr) THEN ContextCatch(body)
           ELSE LET context == ParseValue(jsonStr) IN
                IF ~CanSetProperty(context) THEN ContextCatch(body)
                ELSE Respond(200, JsonBody(JSONWire(SetProperty(context, "originalQuery", query))))

ContextHandle ==
    /\ handler = "context"
    /\ pc = "start"
    /\ LET step == ContextEntry(req.method, req.body, apiKey) IN
       IF step.kind = "respond"
       THEN /\ res' = step.res
            /\ pc' = "done"
            /\ UNCHANGED apiCalls
       ELSE /\ apiCalls' = apiCalls + 1
            /\ pc' = "fetch"
            /\ UNCHANGED res
    /\ UNCHANGED <<handler, req, apiKey, allProducts, i, j, results, calls, clock,
                   attempts, updates, store, checks, invocation, first>>

ContextFetchReturn ==
    /\ handler = "context"
    /\ pc = "fetch"
    /\ \E outcome \in ContextOutcomes :
          res' = ContextAfterFetch(req.body, outcome)
    /\ pc' = "done"
    /\ UNCHANGED <<handler, req, apiKey, apiCalls, allProducts, i, j, results, calls,
                   clock, attempts, updates, store, checks, invocation, first>>

---------------------------------------------------------------------------
(* generateKeywords: src/api/enrich-products.js *)

\* .slice(0, 15) of the keywords
MaxKeywords == 15
\* .slice(0, 5) of bestFor
MaxBestFor == 5

SUMMER == <<"S","U","M","M","E","R">>
WINTER == <<"W","I","N","T","E","R">>
ALL_SEASON == <<"A","L","L","_","S","E","A","S","O","N">>
DATE == <<"D","A","T","E">>
CASUAL == <<"C","A","S","U","A","L">>
OFFICIAL_PURPOSE == <<"O","F","F","I","C","I","A","L","_","P","U","R","P","O","S","E">>
FESTIVE == <<"F","E","S","T","I","V","E">>
PARTY == <<"P","A","R","T","Y">>

validSeasons == <<JStr(SUMMER), JStr(WINTER), JStr(ALL_SEASON)>>
validBestFor == <<JStr(DATE), JStr(CASUAL), JStr(OFFICIAL_PURPOSE), JStr(FESTIVE), JStr(PARTY)>>

Min(a, b) == IF a < b THEN a ELSE b

\* Array.prototype.slice(a, b) with 0 <= a, 0 <= b
Slice(s, a, b) == SubSeq(s, a + 1, Min(b, Len(s)))

\* Array.prototype.includes
Includes(arr, v) == \E n \in 1..Len(arr) : arr[n] = v

\* k => typeof k === 'string' && k.trim().length > 0
KeywordKept(k) == k.t = "string" /\ Len(Trim(k.s)) > 0

\* the keyword trimmed, its case kept
KeywordClean_keepcase(k) == JStr(Trim(k.s))

\* k => k.toLowerCase().trim()
KeywordClean(k) == JStr(Trim(ToLowerCase(k.s)))

\* b => validBestFor.includes(b)
BestForKept(b) == Includes(validBestFor, b)

CleanKeywords(v) ==
    IF v.t = "array"
    THEN LET kept == SelectSeq(v.a, KeywordKept)
             mapped == [n \in 1..Len(kept) |-> KeywordClean(kept[n])]
         IN Slice(mapped, 0, MaxKeywords)
    ELSE <<>>

CleanSeason(v) ==
    IF Includes(validSeasons, v) THEN v ELSE JStr(ALL_SEASON)

CleanBestFor(v) ==
    LET bestFor == IF v.t = "array"
                   THEN Slice(SelectSeq(v.a, BestForKept), 0, MaxBestFor)
                   ELSE <<>>
    IN IF Len(bestFor) > 0 THEN bestFor ELSE <<JStr(CASUAL)>>

\* the validation of a parsed reply that is an object
ValidateMetadata(metadata) ==
    [keywords |-> CleanKeywords(Get(metadata, "keywords")),
     season |-> CleanSeason(Get(metadata, "season")),
     bestFor |-> CleanBestFor(Get(metadata, "bestFor"))]

Threw(msg) == [ok |-> FALSE, error |-> msg]
Returned(m) == [ok |-> TRUE, metadata |-> m]

\* typeof metadata !== 'object' || metadata === null
NotAnObject(v) == ~(v.t \in {"object", "array"})

\* generateKeywords on what the completion API call came back with:
\* the metadata returned, or the error thrown
generateKeywords(outcome) ==
    CASE outcome.kind = "throw" -> Threw("fetch failed")
      [] outcome.kind = "notok" -> Threw("OpenAI API error")
      [] outcome.kind = "baddata" -> Threw("TypeError")
      [] OTHER ->
           LET jsonStr == StripFences(TokTrim(outcome.content)) IN
           IF ~ParseOk(jsonStr) THEN Threw("SyntaxError")
           ELSE IF NotAnObject(ParseValue(jsonStr))
                THEN Threw("OpenAI returned invalid format - expected object")
           ELSE Returned(ValidateMetadata(ParseValue(jsonStr)))

---------------------------------------------------------------------------
(* Enrichment handler: src/api/enrich-products.js *)

\* number of documents in the shop_products collection
NumProducts == 4
\* largest batchSize a request names
MaxBatch == 2
\* largest skip a request names
MaxSkip == 1
\* wall-clock time passing in one step, in ms
TickMs == 125000

\* a window of four
concurrency_four == 3 + 1

\* const concurrency = 3
concurrency == 3
\* const maxTime = 250000
maxTime == 250000
\* batchSize = 5 when the request names none
DefaultBatchSize == 5
\* setTimeout(resolve, 500)
SleepMs == 500

ProductIds == <<"p1", "p2", "p3", "p4", "p5", "p6", "p7", "p8">>
\* the documents of the collection, in the order the store returns them
Collection == SubSeq(ProductIds, 1, NumProducts)
AllIds == {Collection[n] : n \in 1..Len(Collection)} \cup {"zz"}

\* an object of the given optional members (undefined: member absent)
ObjectOf(members) ==
    JObj([k \in {q \in DOMAIN members : members[q].t # "undefined"} |-> members[k]])

EnrichBody(batchSize, dryRun, productId, skip, limit) ==
    ObjectOf([batchSize |-> batchSize, dryRun |-> dryRun, productId |-> productId,
              skip |-> skip, limit |-> limit])

\* destructuring with a default: the default applies to undefined
Param(body, key, default) ==
    IF Get(body, key).t = "undefined" THEN default ELSE Get(body, key)

BatchSizeOf(body) == Param(body, "batchSize", JNum(DefaultBatchSize)).n
DryRunOf(body) == Truthy(Param(body, "dryRun", JBool(FALSE)))
ProductIdOf(body) == Param(body, "productId", JNull)
SkipOf(body) == Param(body, "skip", JNum(0)).n
LimitOf(body) == Param(body, "limit", JNull)

\* lines 78-86: skip, then limit
ApplySkip(products, skip) ==
    IF skip > 0 THEN Slice(products, skip, Len(products)) ELSE products

ApplyLimit(products, limit) ==
    IF Truthy(limit) /\ limit.n > 0 THEN Slice(products, 0, limit.n) ELSE products

Paginate(products, body) ==
    ApplyLimit(ApplySkip(products, SkipOf(body)), LimitOf(body))

\* the results accumulator of the list path
NewResults(products, body) ==
    [total |-> Len(products), processed |-> 0, updated |-> 0, errors |-> <<>>,
     dryRun |-> DryRunOf(body)]

ErrorEntry(product, msg) == [productId |-> product, error |-> msg]

\* a batch reaching one product into the next
BatchAt_overlap(products, n, batchSize) == Slice(products, n, n + batchSize + 1)

\* allProducts.slice(i, i + batchSize)
BatchAt(products, n, batchSize) == Slice(products, n, n + batchSize)
\* the sub-batch sliced from the start of the batch
ConcurrentBatchAt_fromzero(batch, m) == Slice(batch, 0, m + concurrency)

\* batch.slice(j, j + concurrency)
ConcurrentBatchAt(batch, m) == Slice(batch, m, m + concurrency)

\* the dry-run flag ignored
WritesToStore_always(dryRun) == TRUE

\* if (!dryRun): the store update is issued
WritesToStore(dryRun) == ~dryRun

InFlight == {k \in 1..Len(calls) : calls[k].st # "done"}
AllSettled == InFlight = {}

\* elapsed > maxTime
TimeExceeded(elapsed) == elapsed > maxTime

ClockCap == maxTime + 1
Advance(t, d) == Min(t + d, ClockCap)

\* the resume index taken from the processed count
PartialResponse_processed(rs, n) ==
    Respond(200, [kind |-> "results", success |-> TRUE,
                  results |-> [total |-> rs.total, processed |-> rs.processed,
                               updated |-> rs.updated, errors |-> rs.errors,
                               dryRun |-> rs.dryRun,
                               partial |-> TRUE, nextBatchStart |-> rs.processed]])

PartialResponse(rs, n) ==
    Respond(200, [kind |-> "results", success |-> TRUE,
                  results |-> [total |-> rs.total, processed |-> rs.processed,
                               updated |-> rs.updated, errors |-> rs.errors,
                               dryRun |-> rs.dryRun,
                               partial |-> TRUE, nextBatchStart |-> n]])

FinalResponse(rs) ==
    Respond(200, [kind |-> "results", success |-> TRUE, results |-> rs])

InternalError(msg) ==
    Respond(500, [kind |-> "error", error |-> "Internal Server Error", message |-> msg])

\* the calls concurrentBatch.map starts: one per product, each at its
\* generateKeywords await
StartedCalls(cb) == [k \in 1..Len(cb) |-> [product |-> cb[k], st |-> "gen"]]

CountIn(cb, id) == Cardinality({k \in 1..Len(cb) : cb[k] = id})

\* start the sub-batch at inner index m of the batch at outer index n
Launch(products, n, m) ==
    LET cb == ConcurrentBatchAt(BatchAt(products, n, BatchSizeOf(req.body)), m) IN
    /\ calls' = StartedCalls(cb)
    /\ attempts' = [id \in DOMAIN attempts |-> attempts[id] + CountIn(cb, id)]
    /\ apiCalls' = apiCalls + Len(cb)

\* the head of the outer loop at index n, with elapsed time `elapsed`:
\* the loop condition, the time check, and the start of the batch
LoopIter(products, rs, n, elapsed) ==
    IF n < Len(products)
    THEN /\ checks' = checks + 1
         /\ i' = n
         /\ IF TimeExceeded(elapsed)
            THEN /\ res' = PartialResponse(rs, n)
                 /\ pc' = "done"
                 /\ calls' = <<>>
                 /\ UNCHANGED <<j, attempts, apiCalls>>
            ELSE /\ j' = 0
                 /\ Launch(products, n, 0)
                 /\ pc' = "join"
                 /\ UNCHANGED res
    ELSE /\ res' = FinalResponse(rs)
         /\ pc' = "done"
         /\ i' = n
         /\ calls' = <<>>
         /\ UNCHANGED <<j, attempts, apiCalls, checks>>

\* the handler up to its first await, or to its response
EnrichEntry(method, body, key) ==
    IF method = "OPTIONS" THEN [kind |-> "respond", res |-> Respond(200, EmptyBody)]
    ELSE IF method # "POST"
         THEN [kind |-> "respond", res |-> Respond(405, ErrorBody("Method not allowed"))]
    ELSE IF body.t \in {"undefined", "null"}
         \* destructuring req.body throws a TypeError, caught at line 184
         THEN [kind |-> "respond", res |-> InternalError("TypeError")]
    ELSE IF ~key
         THEN [kind |-> "respond", res |-> Respond(500, ErrorBody("OPENAI_API_KEY not configured"))]
    ELSE IF Truthy(ProductIdOf(body)) THEN [kind |-> "singleGet"]
    ELSE [kind |-> "listGet"]

EnrichHandle ==
    /\ handler = "enrich"
    /\ pc = "start"
    /\ LET step == EnrichEntry(req.method, req.body, apiKey) IN
       IF step.kind = "respond"
       THEN res' = step.res /\ pc' = "done"
       ELSE pc' = step.kind /\ UNCHANGED res
    /\ UNCHANGED <<handler, req, apiKey, apiCalls, allProducts, i, j, results, calls,
                   clock, attempts, updates, store, checks, invocation, first>>

\* productsQuery.get() of the whole collection comes back
ListGetReturn ==
    /\ handler = "enrich"
    /\ pc = "listGet"
    /\ \E ok \in BOOLEAN :
          IF ok
          THEN LET products == Paginate(Collection, req.body)
                   rs == NewResults(products, req.body)
               IN /\ allProducts' = products
                  /\ results' = rs
                  /\ clock' = 0
                  /\ LoopIter(products, rs, 0, 0)
          ELSE /\ res' = InternalError("store read failed")
               /\ pc' = "done"
               /\ UNCHANGED <<allProducts, results, clock, i, j, calls, attempts,
                              apiCalls, checks>>
    /\ UNCHANGED <<handler, req, apiKey, updates, store, invocation, first>>

\* the outcomes of a completion API call the enrichment runs enumerate
ValidReply ==
    Reply(<<TFenceJson, TJson(JObj([keywords |-> JArr(<<JStr(<<"A">>)>>),
                                     season |-> JStr(SUMMER)])), TFence>>)
EnrichOutcomes == {NotOk, Reply(<<TGarbage>>), Reply(<<TJson(JNull)>>), ValidReply}

SetCall(k, c) == [calls EXCEPT ![k] = c]

\* a call's generateKeywords returns or throws (lines 129-158)
GenReturn(k) ==
    /\ handler = "enrich"
    /\ pc = "join"
    /\ k \in 1..Len(calls)
    /\ calls[k].st = "gen"
    /\ \E outcome \in EnrichOutcomes :
          LET r == generateKeywords(outcome)
              product == calls[k].product
          IN IF ~r.ok
             THEN /\ results' = [results EXCEPT !.errors = Append(@, ErrorEntry(product, r.error))]
                  /\ calls' = SetCall(k, [product |-> product, st |-> "done"])
                  /\ UNCHANGED updates
             ELSE IF WritesToStore(DryRunOf(req.body))
             THEN /\ updates' = [updates EXCEPT ![product] = @ + 1]
                  /\ calls' = SetCall(k, [product |-> product, st |-> "upd", metadata |-> r.metadata])
                  /\ UNCHANGED results
             ELSE /\ results' = [results EXCEPT !.processed = @ + 1]
                  /\ calls' = SetCall(k, [product |-> product, st |-> "done"])
                  /\ UNCHANGED updates
    /\ UNCHANGED <<handler, req, apiKey, pc, res, apiCalls, allProducts, i, j, clock,
                   attempts, store, checks, invocation, first>>

\* a call's store update resolves or rejects (lines 144-148)
UpdReturn(k) ==
    /\ handler = "enrich"
    /\ pc = "join"
    /\ k \in 1..Len(calls)
    /\ calls[k].st = "upd"
    /\ \E ok \in BOOLEAN :
          LET product == calls[k].product IN
          IF ok
          THEN /\ store' = [store EXCEPT ![product] = [stored |-> TRUE, metadata |-> calls[k].metadata]]
               /\ results' = [results EXCEPT !.updated = @ + 1, !.processed = @ + 1]
          ELSE /\ results' = [results EXCEPT !.errors = Append(@, ErrorEntry(product, "store update failed"))]
               /\ UNCHANGED store
    /\ calls' = SetCall(k, [product |-> calls[k].product, st |-> "done"])
    /\ UNCHANGED <<handler, req, apiKey, pc, res, apiCalls, allProducts, i, j, clock,
                   attempts, updates, checks, invocation, first>>

\* Promise.all of the sub-batch resolves (lines 162-174)
Join ==
    /\ handler = "enrich"
    /\ pc = "join"
    /\ AllSettled
    /\ LET batchSize == BatchSizeOf(req.body)
           batch == BatchAt(allProducts, i, batchSize)
       IN IF j + concurrency < Len(batch)
          THEN /\ pc' = "subSleep"
               /\ UNCHANGED <<res, i, j, calls, attempts, apiCalls, checks>>
          ELSE IF i + batchSize < Len(allProducts)
          THEN /\ pc' = "batchSleep"
               /\ UNCHANGED <<res, i, j, calls, attempts, apiCalls, checks>>
          ELSE LoopIter(allProducts, results, i + batchSize, clock)
    /\ UNCHANGED <<handler, req, apiKey, allProducts, results, clock, updates, store,
                   invocation, first>>

\* the delay between two sub-batches ends (line 166)
SubSleepDone ==
    /\ handler = "enrich"
    /\ pc = "subSleep"
    /\ clock' = Advance(clock, SleepMs)
    /\ j' = j + concurrency
    /\ Launch(allProducts, i, j + concurrency)
    /\ pc' = "join"
    /\ UNCHANGED <<handler, req, apiKey, res, allProducts, i, results, updates, store,
                   checks, invocation, first>>

\* the delay between two batches ends (line 172)
BatchSleepDone ==
    /\ handler = "enrich"
    /\ pc = "batchSleep"
    /\ clock' = Advance(clock, SleepMs)
    /\ LoopIter(allProducts, results, i + BatchSizeOf(req.body), Advance(clock, SleepMs))
    /\ UNCHANGED <<handler, req, apiKey, allProducts, results, updates, store,
                   invocation, first>>

\* wall-clock time passes while the handler awaits
Tick ==
    /\ handler = "enrich"
    /\ pc \in {"join", "subSleep", "batchSleep"}
    /\ clock < ClockCap
    /\ clock' = Advance(clock, TickMs)
    /\ UNCHANGED <<handler, req, apiKey, pc, res, apiCalls, allProducts, i, j, results,
                   calls, attempts, updates, store, checks, invocation, first>>

---------------------------------------------------------------------------
(* Enrichment handler, single-product path: processProducts *)

NotStored == [stored |-> FALSE]

SingleResponse(rs, dryRun) ==
    Respond(200, [kind |-> "single", success |-> TRUE, dryRun |-> dryRun, results |-> rs])

ProductEntry(product, m) ==
    [id |-> product, keywords |-> m.keywords, season |-> m.season, bestFor |-> m.bestFor]

Exists(id) == \E n \in 1..Len(Collection) : Collection[n] = id

\* productsQuery.doc(productId).get() comes back (lines 63-68), and
\* processProducts starts on the one product
SingleGetReturn ==
    /\ handler = "enrich"
    /\ pc = "singleGet"
    /\ \E ok \in BOOLEAN :
          LET id == ProductIdOf(req.body).s[1] IN
          IF ~ok
          THEN /\ res' = InternalError("store read failed")
               /\ pc' = "done"
               /\ UNCHANGED <<allProducts, results, calls, attempts, apiCalls>>
          ELSE IF ~Exists(id)
          THEN /\ res' = Respond(404, ErrorBody("Product not found"))
               /\ pc' = "done"
               /\ UNCHANGED <<allProducts, results, calls, attempts, apiCalls>>
          ELSE /\ allProducts' = <<id>>
               /\ results' = [products |-> <<>>, errors |-> <<>>]
               /\ calls' = StartedCalls(<<id>>)
               /\ attempts' = [attempts EXCEPT ![id] = @ + 1]
               /\ apiCalls' = apiCalls + 1
               /\ pc' = "singleGen"
               /\ UNCHANGED res
    /\ UNCHANGED <<handler, req, apiKey, i, j, clock, updates, store, checks,
                   invocation, first>>

\* generateKeywords returns or throws in processProducts (lines 201-229)
SingleGenReturn ==
    /\ handler = "enrich"
    /\ pc = "singleGen"
    /\ \E outcome \in EnrichOutcomes :
          LET r == generateKeywords(outcome)
              product == calls[1].product
              dryRun == DryRunOf(req.body)
          IN IF ~r.ok
             THEN LET rs == [results EXCEPT !.errors = Append(@, ErrorEntry(product, r.error))]
                  IN /\ results' = rs
                     /\ res' = SingleResponse(rs, dryRun)
                     /\ calls' = SetCall(1, [product |-> product, st |-> "done"])
                     /\ pc' = "done"
                     /\ UNCHANGED updates
             ELSE IF WritesToStore(dryRun)
             THEN /\ updates' = [updates EXCEPT ![product] = @ + 1]
                  /\ calls' = SetCall(1, [product |-> product, st |-> "upd", metadata |-> r.metadata])
                  /\ pc' = "singleUpd"
                  /\ UNCHANGED <<results, res>>
             ELSE LET rs == [results EXCEPT !.products = Append(@, ProductEntry(product, r.metadata))]
                  IN /\ results' = rs
                     /\ res' = SingleResponse(rs, dryRun)
                     /\ calls' = SetCall(1, [product |-> product, st |-> "done"])
                     /\ pc' = "done"
                     /\ UNCHANGED updates
    /\ UNCHANGED <<handler, req, apiKey, apiCalls, allProducts, i, j, clock, attempts,
                   store, checks, invocation, first>>

\* the store update of processProducts resolves or rejects (lines 209-223)
SingleUpdReturn ==
    /\ handler = "enrich"
    /\ pc = "singleUpd"
    /\ \E ok \in BOOLEAN :
          LET product == calls[1].product
              m == calls[1].metadata
              rs == IF ok
                    THEN [results EXCEPT !.products = Append(@, ProductEntry(product, m))]
                    ELSE [results EXCEPT !.errors = Append(@, ErrorEntry(product, "store update failed"))]
          IN /\ store' = IF ok THEN [store EXCEPT ![product] = [stored |-> TRUE, metadata |-> m]]
                         ELSE store
             /\ results' = rs
             /\ res' = SingleResponse(rs, DryRunOf(req.body))
    /\ calls' = SetCall(1, [product |-> calls[1].product, st |-> "done"])
    /\ pc' = "done"
    /\ UNCHANGED <<handler, req, apiKey, apiCalls, allProducts, i, j, clock, attempts,
                   updates, checks, invocation, first>>

---------------------------------------------------------------------------
(* Requests and specifications *)

ContextRequests == {[method |-> m, body |-> b] : m \in Methods, b \in ContextBodies}

OptNum(S) == {JUndefined} \cup {JNum(n) : n \in S}

ListBodies ==
    {EnrichBody(bs, dr, JUndefined, sk, lim) :
        bs \in OptNum(1..MaxBatch), dr \in {JUndefined, JBool(TRUE)},
        sk \in OptNum(1..MaxSkip), lim \in OptNum({NumProducts - 1})}

SingleBodies ==
    {EnrichBody(JUndefined, dr, JStr(<<id>>), JUndefined, JUndefined) :
        dr \in {JUndefined, JBool(TRUE)}, id \in {Collection[1], "zz"}}

EnrichRequests ==
    {[method |-> m, body |-> b] : m \in Methods, b \in {JUndefined}}
        \cup {[method |-> "POST", body |-> b] : b \in ListBodies \cup SingleBodies}

NoFirst == [completed |-> {}, skip |-> 0, nextBatchStart |-> 0]

InitRest ==
    /\ pc = "start"
    /\ res = NoResponse
    /\ apiCalls = 0
    /\ allProducts = <<>>
    /\ i = 0
    /\ j = 0
    /\ results = [total |-> 0, processed |-> 0, updated |-> 0, errors |-> <<>>, dryRun |-> FALSE]
    /\ calls = <<>>
    /\ clock = 0
    /\ attempts = [id \in AllIds |-> 0]
    /\ updates = [id \in AllIds |-> 0]
    /\ store = [id \in AllIds |-> NotStored]
    /\ checks = 0
    /\ invocation = 1
    /\ first = NoFirst

Init ==
    /\ \/ handler = "context" /\ req \in ContextRequests
       \/ handler = "enrich" /\ req \in EnrichRequests
    /\ apiKey \in BOOLEAN
    /\ InitRest

Next ==
    \/ ContextHandle
    \/ ContextFetchReturn
    \/ EnrichHandle
    \/ ListGetReturn
    \/ \E k \in 1..concurrency : GenReturn(k)
    \/ \E k \in 1..concurrency : UpdReturn(k)
    \/ Join
    \/ SubSleepDone
    \/ BatchSleepDone
    \/ Tick
    \/ SingleGetReturn
    \/ SingleGenReturn
    \/ SingleUpdReturn

Spec == Init /\ [][Next]_vars

---------------------------------------------------------------------------
(* Resuming: a second invocation with skip = the first one's nextBatchStart *)

IsPartial(r) ==
    /\ r.status = 200
    /\ r.body.kind = "results"
    /\ "partial" \in DOMAIN r.body.results

ErrorIds(rs) == {rs.errors[k].productId : k \in 1..Len(rs.errors)}

\* the products an invocation has completed: attempted, and not failed
Completed == {id \in AllIds : attempts[id] > 0} \ ErrorIds(results)

\* the caller sends the same request again, with skip set to nextBatchStart
FollowUp ==
    /\ handler = "enrich"
    /\ pc = "done"
    /\ invocation = 1
    /\ IsPartial(res)
    /\ first' = [completed |-> Completed, skip |-> SkipOf(req.body),
                 nextBatchStart |-> res.body.results.nextBatchStart]
    /\ req' = [req EXCEPT !.body = SetProperty(@, "skip", JNum(res.body.results.nextBatchStart))]
    /\ invocation' = 2
    /\ pc' = "start"
    /\ res' = NoResponse
    /\ apiCalls' = 0
    /\ allProducts' = <<>>
    /\ i' = 0
    /\ j' = 0
    /\ results' = [total |-> 0, processed |-> 0, updated |-> 0, errors |-> <<>>, dryRun |-> FALSE]
    /\ calls' = <<>>
    /\ clock' = 0
    /\ attempts' = [id \in AllIds |-> 0]
    /\ updates' = [id \in AllIds |-> 0]
    /\ checks' = 0
    /\ UNCHANGED <<handler, apiKey, store>>

InitResume ==
    /\ handler = "enrich"
    /\ req \in {[method |-> "POST", body |-> b] : b \in ListBodies}
    /\ apiKey = TRUE
    /\ InitRest

NextResume ==
    \/ EnrichHandle
    \/ ListGetReturn
    \/ \E k \in 1..concurrency : GenReturn(k)
    \/ \E k \in 1..concurrency : UpdReturn(k)
    \/ Join
    \/ SubSleepDone
    \/ BatchSleepDone
    \/ Tick
    \/ FollowUp

SpecResume == InitResume /\ [][NextResume]_vars

---------------------------------------------------------------------------
(* generateKeywords alone, on a wide range of completion replies *)

\* longest keywords array a reply carries
MaxKeywordsIn == 17
\* longest bestFor array a reply carries
MaxBestForIn == 6

\* the array of length n repeating the elements of base
Cycle(base, n) == [k \in 1..n |-> base[((k - 1) % Len(base)) + 1]]

Bases(S) == SeqsUpTo(S, 2) \ {<<>>}

KeywordElems ==
    {JStr(<<"A", "b">>), JStr(<<" ", "C", " ">>), JStr(<<" ">>), JNum(7)}
KeywordInputs ==
    {JUndefined, JStr(<<"a">>)}
        \cup {JArr(Cycle(b, n)) : b \in Bases(KeywordElems), n \in 0..MaxKeywordsIn}

SeasonInputs ==
    {JUndefined, JNull, JNum(1), JStr(SUMMER), JStr(WINTER), JStr(ALL_SEASON),
     JStr(ToLowerCase(SUMMER))}

BestForElems ==
    {JStr(DATE), JStr(PARTY), JStr(ToLowerCase(PARTY)), JNum(3)}
BestForInputs ==
    {JUndefined, JStr(CASUAL)}
        \cup {JArr(Cycle(b, n)) : b \in Bases(BestForElems), n \in 0..MaxBestForIn}

NonObjectValues == {JNull, JNum(1), JStr(<<"a">>)}

FewKeywordInputs == {JUndefined, JArr(<<JStr(<<"K">>)>>)}
FewBestForInputs == {JUndefined, JArr(<<JStr(FESTIVE), JStr(OFFICIAL_PURPOSE)>>)}

\* a reply carrying the JSON text of v: bare, fenced, or followed by text
WrapKinds == {"bare", "jsonfence", "fence", "trailing"}
Wrap(w, v) ==
    CASE w = "bare" -> <<TJson(v)>>
      [] w = "jsonfence" -> <<TSpace, TFenceJson, TSpace, TJson(v), TSpace, TFence, TSpace>>
      [] w = "fence" -> <<TFence, TJson(v), TFence>>
      [] OTHER -> <<TJson(v), TGarbage>>

\* one call of generateKeywords: req is what the completion API came back
\* with, res what the call returned or threw
KeywordsCall ==
    /\ handler = "keywords"
    /\ pc = "start"
    /\ res' = generateKeywords(req)
    /\ pc' = "done"
    /\ UNCHANGED <<handler, req, apiKey, apiCalls, allProducts, i, j, results, calls,
                   clock, attempts, updates, store, checks, invocation, first>>

InitKeywords ==
    /\ handler = "keywords"
    /\ \/ req \in {NetworkError, NotOk, BadData}
       \/ \E v \in NonObjectValues \cup {JArr(<<JNum(1)>>)}, w \in WrapKinds :
             req = Reply(Wrap(w, v))
       \/ \E kw \in KeywordInputs \cup FewKeywordInputs, se \in SeasonInputs,
             bf \in BestForInputs \cup FewBestForInputs, w \in WrapKinds :
             /\ kw \in FewKeywordInputs \/ bf \in FewBestForInputs
             /\ req = Reply(Wrap(w, ObjectOf([keywords |-> kw, season |-> se, bestFor |-> bf])))
    /\ apiKey = TRUE
    /\ InitRest

SpecKeywords == InitKeywords /\ [][KeywordsCall]_vars

---------------------------------------------------------------------------
(* Properties of the context handler *)

\* the body carries a query that is a string with a non-whitespace character
HasTextQuery(body) ==
    /\ body.t = "object"
    /\ "query" \in DOMAIN body.p
    /\ body.p["query"].t = "string"
    /\ \E n \in 1..Len(body.p["query"].s) : ~IsSpace(body.p["query"].s[n])

ContextAnswered == handler = "context" /\ pc = "done"

\* C1: every POST with a string query holding a non-whitespace character is
\* answered 200 with a JSON body whose originalQuery is that query, whatever
\* the completion API did.
C1_OriginalQueryEchoed ==
    (ContextAnswered /\ req.method = "POST" /\ HasTextQuery(req.body))
        => /\ res.status = 200
           /\ res.body.kind = "json"
           /\ Get(res.body.value, "originalQuery") = req.body.p["query"]

\* C3: in both handlers a method other than POST and OPTIONS is answered
\* 405, and OPTIONS is answered 200 with an empty body.
C3_MethodDispatch ==
    (handler \in {"context", "enrich"} /\ pc = "done")
        => /\ req.method \notin {"POST", "OPTIONS"} => res.status = 405
           /\ req.method = "OPTIONS" => (res.status = 200 /\ res.body = EmptyBody)

\* C4: a POST to the context handler whose query is empty, blank, absent
\* (also with no body at all) or not a string is answered 400, and no
\* completion API call is made for it.
C4_InvalidQueryRejected ==
    (handler = "context" /\ req.method = "POST" /\ ~HasTextQuery(req.body))
        => /\ apiCalls = 0
           /\ pc = "done" => res.status = 400

---------------------------------------------------------------------------
(* Properties of resuming *)

\* C2: a follow-up invocation with skip = nextBatchStart attempts no product
\* the first invocation completed, for every skip of the first invocation.
C2_ResumeSkipsCompleted ==
    invocation = 2 => \A id \in first.completed : attempts[id] = 0

---------------------------------------------------------------------------
(* Properties of the enrichment handler *)

RECURSIVE SumOver(_, _)
SumOver(f, S) ==
    IF S = {} THEN 0
    ELSE LET x == CHOOSE y \in S : TRUE IN f[x] + SumOver(f, S \ {x})

\* generation calls started so far
Attempted == SumOver(attempts, DOMAIN attempts)
\* store updates issued so far
UpdatesIssued == SumOver(updates, DOMAIN updates)
StoredIds == {id \in DOMAIN store : store[id].stored}

\* the request asks for a dry run
RequestsDryRun ==
    /\ req.body.t = "object"
    /\ "dryRun" \in DOMAIN req.body.p
    /\ req.body.p["dryRun"] = JBool(TRUE)

\* the handler is past the fetch of the product list / of the one product
InListPath == handler = "enrich" /\ "processed" \in DOMAIN results /\ (pc # "start" /\ pc # "listGet" /\ pc # "singleGet") /\ res.status # 500
InSinglePath == handler = "enrich" /\ "products" \in DOMAIN results

ListResponded == InListPath /\ pc = "done" /\ res.status = 200 /\ res.body.kind = "results"

\* C5: a dry run issues no store update; otherwise exactly one update is
\* issued for every product counted as processed, and updated = processed
\* at every join point and in the response (0 under dry run).
C5_WriteDiscipline ==
    /\ (handler = "enrich" /\ RequestsDryRun)
          => /\ UpdatesIssued = 0
             /\ StoredIds = {}
             /\ InListPath => results.updated = 0
             /\ ListResponded => res.body.results.updated = 0
    /\ (handler = "enrich" /\ ~RequestsDryRun)
          => /\ \A id \in StoredIds : updates[id] = 1
             /\ InListPath => /\ results.updated = results.processed
                              /\ results.processed = Cardinality(StoredIds)
             /\ ListResponded => res.body.results.updated = res.body.results.processed
             /\ InSinglePath => Len(results.products) = Cardinality(StoredIds)

C5_Witness ==
    /\ ListResponded
    /\ ~RequestsDryRun
    /\ res.body.results.updated = 2
    /\ Len(res.body.results.errors) = 2
    /\ UpdatesIssued = 3

\* C6: processed + number of errors = products attempted, at every join
\* point; = total in a complete response; = nextBatchStart in a partial one.
C6_Accounting ==
    /\ (InListPath /\ AllSettled)
          => results.processed + Len(results.errors) = Attempted
    /\ (ListResponded /\ ~IsPartial(res))
          => res.body.results.processed + Len(res.body.results.errors)
                = res.body.results.total
    /\ (ListResponded /\ IsPartial(res))
          => res.body.results.processed + Len(res.body.results.errors)
                = res.body.results.nextBatchStart

C6_Witness ==
    /\ ListResponded
    /\ IsPartial(res)
    /\ res.body.results.nextBatchStart = 2
    /\ res.body.results.processed = 1
    /\ Len(res.body.results.errors) = 1
    /\ res.body.results.total = 4

---------------------------------------------------------------------------
(* Properties of generateKeywords *)

\* the JSON value a reply carries between its optional fences
Carried(outcome) == ParseValue(StripFences(TokTrim(outcome.content)))

\* the reply parses, to a JSON object (an array is one)
ParsesToObject(outcome) ==
    /\ outcome.kind = "content"
    /\ ParseOk(StripFences(TokTrim(outcome.content)))
    /\ Carried(outcome).t \in {"object", "array"}

HasUpperCase(str) ==
    \E n \in 1..Len(str) : \E m \in 1..Len(UpperLetters) : str[n] = UpperLetters[m]

SeasonSet == {JStr(SUMMER), JStr(WINTER), JStr(ALL_SEASON)}
BestForSet == {JStr(DATE), JStr(CASUAL), JStr(OFFICIAL_PURPOSE), JStr(FESTIVE), JStr(PARTY)}

\* the elements of the reply's bestFor that belong to the enumeration
Surviving(v) ==
    IF v.t = "array" THEN {n \in 1..Len(v.a) : v.a[n] \in BestForSet} ELSE {}

KeywordsReturned == handler = "keywords" /\ pc = "done" /\ ParsesToObject(req)

\* C7: for a reply that parses to an object, the metadata returned has at
\* most 15 keywords, each a non-empty lower-case string; a season of the
\* enumeration (ALL_SEASON when the reply's is missing or foreign); and a
\* bestFor of 1 to 5 values of the enumeration, [CASUAL] when none survives.
C7_MetadataValidated ==
    KeywordsReturned
        => /\ res.ok
           /\ LET m == res.metadata
                  given == Carried(req)
              IN /\ Len(m.keywords) <= 15
                 /\ \A n \in 1..Len(m.keywords) :
                       /\ m.keywords[n].t = "string"
                       /\ Len(m.keywords[n].s) > 0
                       /\ ~HasUpperCase(m.keywords[n].s)
                 /\ m.season \in SeasonSet
                 /\ Get(given, "season") \notin SeasonSet => m.season = JStr(ALL_SEASON)
                 /\ Len(m.bestFor) \in 1..5
                 /\ \A n \in 1..Len(m.bestFor) : m.bestFor[n] \in BestForSet
                 /\ Surviving(Get(given, "bestFor")) = {} => m.bestFor = <<JStr(CASUAL)>>

C7_Witness ==
    /\ KeywordsReturned
    /\ Get(Carried(req), "keywords").t = "array"
    /\ Len(Get(Carried(req), "keywords").a) = 17
    /\ Get(Carried(req), "keywords").a[1] = JStr(<<" ", "C", " ">>)
    /\ Len(res.metadata.keywords) = 15
    /\ res.metadata.keywords[1] = JStr(<<"c">>)
    /\ res.metadata.season = JStr(ALL_SEASON)
    /\ Get(Carried(req), "season") = JStr(ToLowerCase(SUMMER))
    /\ res.metadata.bestFor = <<JStr(CASUAL)>>

---------------------------------------------------------------------------
(* Properties of the batch loop *)

\* what the request names, read off its body
NamedNumber(key, default) ==
    IF req.body.t = "object" /\ key \in DOMAIN req.body.p
    THEN req.body.p[key].n ELSE default

\* the documents left after skip and limit
ExpectedIds ==
    LET skip == NamedNumber("skip", 0)
        limit == NamedNumber("limit", Len(Collection))
    IN {Collection[n] : n \in {q \in 1..Len(Collection) : q > skip /\ q <= skip + limit}}

ErrorCount(id) == Cardinality({k \in 1..Len(results.errors) : results.errors[k].productId = id})

C8_EveryProductOnce ==
    /\ InListPath => \A id \in DOMAIN attempts : ErrorCount(id) <= 1
    /\ (handler = "enrich" /\ res.status = 500) => Attempted = 0
    /\ (ListResponded /\ ~IsPartial(res))
          => \A id \in DOMAIN attempts :
                attempts[id] = IF id \in ExpectedIds THEN 1 ELSE 0
    /\ (handler = "enrich" /\ pc # "done") => ENABLED Next

\* a call that ends either counts its product as processed or appends one
\* error entry with its product's id
C8_CallEnds ==
    \A k \in 1..Len(calls) :
        (/\ pc = "join" /\ pc' = "join"
         /\ calls[k].st # "done"
         /\ Len(calls') = Len(calls)
         /\ calls'[k].st = "done")
        => \/ /\ results'.processed = results.processed + 1
              /\ results'.errors = results.errors
           \/ /\ results'.processed = results.processed
              /\ Len(results'.errors) = Len(results.errors) + 1
              /\ SubSeq(results'.errors, 1, Len(results.errors)) = results.errors
              /\ results'.errors[Len(results'.errors)].productId = calls[k].product

\* C8: a product's failure is recorded as one error entry with its id and
\* does not abort the run: when the time budget holds, every product left
\* after skip/limit is attempted exactly once and the response is 200.
C8_FailureIsolation == []C8_EveryProductOnce /\ [][C8_CallEnds]_vars

C8_Witness ==
    /\ ListResponded
    /\ ~IsPartial(res)
    /\ res.body.results.total = 4
    /\ res.body.results.processed = 1
    /\ Len(res.body.results.errors) = 3
    /\ res.body.results.errors[1].error = "store update failed"
    /\ res.body.results.errors[2].error = "SyntaxError"
    /\ res.body.results.errors[3].error = "OpenAI API error"

InLoop == InListPath /\ pc \in {"join", "subSleep", "batchSleep"}

C9_AtCheck ==
    /\ (ListResponded /\ IsPartial(res))
          => /\ res.body.results.partial = TRUE
             /\ clock > 250000
             /\ AllSettled
             /\ res.body.results.nextBatchStart < Len(allProducts)
             /\ \A n \in 1..Len(allProducts) :
                   attempts[allProducts[n]] =
                      IF n <= res.body.results.nextBatchStart THEN 1 ELSE 0
    /\ InLoop => checks = (i \div NamedNumber("batchSize", 5)) + 1

C9_CheckStep ==
    /\ checks' # checks
          => /\ checks' = checks + 1
             /\ AllSettled
             /\ i' % NamedNumber("batchSize", 5) = 0
             /\ Attempted = i'
             /\ (clock' > 250000) <=> IsPartial(res')
             /\ clock' > 250000
                   => /\ attempts' = attempts
                      /\ updates' = updates
                      /\ apiCalls' = apiCalls
                      /\ pc' = "done"
    /\ (IsPartial(res') /\ ~IsPartial(res)) => checks' = checks + 1

\* C9: elapsed time is checked only at the start of a batch; a check that
\* finds it above 250000 ms starts no further call or update and answers
\* 200, partial, with nextBatchStart the index of the first product not
\* attempted; a started batch runs to its end before the next check.
C9_TimeBudget == []C9_AtCheck /\ [][handler = "enrich" => C9_CheckStep]_vars

C9_Witness ==
    /\ ListResponded
    /\ IsPartial(res)
    /\ NamedNumber("batchSize", 5) = 2
    /\ res.body.results.nextBatchStart = 2
    /\ checks = 2
    /\ res.body.results.total = 3

C10_AtMostThree ==
    InListPath
        => /\ Cardinality(InFlight) <= 3
           /\ \A a \in InFlight : \A b \in InFlight :
                 a # b => calls[a].product # calls[b].product
           /\ pc \in {"done", "subSleep", "batchSleep"} => InFlight = {}

C10_Joined ==
    (handler = "enrich" /\ "processed" \in DOMAIN results /\ pc # "singleGet")
        => /\ attempts' # attempts => InFlight = {}
           /\ checks' # checks => InFlight = {}
           /\ res' # res => InFlight = {}

\* C10: in the list path at most 3 calls are in flight, on distinct
\* products; no call starts, no time check is made and no response is sent
\* while a call of the current sub-batch is in flight.
C10_BoundedConcurrency == []C10_AtMostThree /\ [][C10_Joined]_vars

C10_Witness ==
    /\ InListPath
    /\ pc = "join"
    /\ Cardinality(InFlight) = 3
    /\ calls[1].st = "upd"
    /\ calls[2].st = "gen"
    /\ calls[3].st = "upd"

=============================================================================
